---- MODULE Spec2Model ----
(***************************************************************************)
(* Model of the my-little-apps backend (src-tauri/src): the process        *)
(* supervisor of lib.rs (start_app, stop_app, the read accessors, the      *)
(* per-app output capture task, the tray "quit" cleanup task) and the      *)
(* route table / proxy router of proxy.rs (add_route, remove_route,        *)
(* update_routes, generate_caddyfile, load_caddyfile_via_api, slugify),    *)
(* and the name registry of mdns.rs (register, unregister, unregister_all). *)
(*                                                                         *)
(* A HashMap is a function whose DOMAIN is its key set.  An Option is a    *)
(* sequence of length 0 (None) or 1 (Some).  A tokio Mutex is a variable   *)
(* holding the task that owns the guard; a handler is cut into steps at    *)
(* the awaits where it can wait (a lock held by another task, the HTTP     *)
(* response of the proxy engine).                                          *)
(***************************************************************************)
EXTENDS Integers, Sequences, FiniteSets, TLC

(* ------------------------------ bounds --------------------------------- *)

\* Number of child processes the model lets the supervisor spawn.
MaxSpawns == 2

\* Number of candidate ports find_free_port probes in the model; the loop of
\* lib.rs:69 probes 100, the model keeps the loop and shortens it.
ProbeBudget == 2

\* Number of output chunks a child writes before it goes quiet.
MaxOutput == 1

\* Number of dns-sd processes the model lets the registry spawn.
MaxAnnouncers == 3

\* Number of chunks the child of the log-capacity runs writes: enough to
\* fill the buffer of LogCap lines and overflow it.
MaxLines == 515

\* Number of events that child lets wait in the channel of its capture task.
MaxPending == 2

\* Longest name given to slugify.
MaxNameLen == 4

(* ------------------------- program constants --------------------------- *)

\* lib.rs:70  10000 + (rand_port() % 50000)
PortBase == 10000
PortSpan == 50000

\* lib.rs:199  if app_logs.len() > 500 { app_logs.remove(0) }
LogCap == 500

(* --------------------------- input domains ----------------------------- *)

AppIds == {"a", "b"}

\* Tasks of the async runtime that run one command handler at a time.
Tasks == {"t1", "t2"}

\* Values of subsec_nanos() sampled by rand_port, both beyond the modulus.
NanoSamples == {50000, 100001}

\* The port argument of start_app (the preferred port).
PortHints == {3000}

RandomPorts == {PortBase + (n % PortSpan) : n \in NanoSamples}

Ports == PortHints \cup RandomPorts

\* The command argument of start_app, as a sequence of characters.
Commands == {<<"r", " ", "x">>, <<" ">>}

Subdomains == {"blog", "shop"}

Hostnames == {"macbook", "localhost"}

\* Exit codes a child can exit with on its own.
ExitCodes == {1}

Pids == 1..MaxSpawns

None == <<>>

Some(x) == <<x>>

(* ------------------------------ HashMap -------------------------------- *)

\* HashMap::insert
MapInsert(m, k, v) == [x \in (DOMAIN m) \cup {k} |-> IF x = k THEN v ELSE m[x]]

\* HashMap::remove
MapRemove(m, k) == [x \in (DOMAIN m) \ {k} |-> m[x]]

EmptyMap == [x \in {} |-> 0]

(* --------------------------- pure functions ---------------------------- *)

IsWhitespace(c) == c \in {" ", "\t", "\n", "\r"}

\* str::split_whitespace: the maximal runs of non-whitespace characters.
RECURSIVE split_whitespace_from(_, _, _)
split_whitespace_from(s, i, cur) ==
    IF i > Len(s)
    THEN IF cur = <<>> THEN <<>> ELSE <<cur>>
    ELSE IF IsWhitespace(s[i])
         THEN IF cur = <<>>
              THEN split_whitespace_from(s, i + 1, <<>>)
              ELSE <<cur>> \o split_whitespace_from(s, i + 1, <<>>)
         ELSE split_whitespace_from(s, i + 1, Append(cur, s[i]))

split_whitespace(s) == split_whitespace_from(s, 1, <<>>)

\* str::trim: drop the leading and the trailing whitespace.
RECURSIVE trim_start(_)
trim_start(s) ==
    IF s # <<>> /\ IsWhitespace(Head(s)) THEN trim_start(Tail(s)) ELSE s

RECURSIVE trim_end(_)
trim_end(s) ==
    IF s # <<>> /\ IsWhitespace(s[Len(s)])
    THEN trim_end(SubSeq(s, 1, Len(s) - 1))
    ELSE s

trim(s) == trim_end(trim_start(s))

\* The string made of the characters of s.
RECURSIVE Str(_)
Str(s) == IF s = <<>> THEN "" ELSE Head(s) \o Str(Tail(s))

\* A byte string is a sequence of characters; "<FF>" stands for a byte that
\* is not valid UTF-8.
from_utf8_ok(bytes) == \A i \in 1..Len(bytes) : bytes[i] # "<FF>"

\* lib.rs:70  the candidate port made from one rand_port() value.
candidate_port(nanos) == PortBase + (nanos % PortSpan)

\* lib.rs:69-74  the probe loop over the candidates, in order.
RECURSIVE probe_random(_, _, _)
probe_random(nanos, i, busy) ==
    IF i > Len(nanos)
    THEN None
    ELSE IF candidate_port(nanos[i]) \notin busy
         THEN Some(candidate_port(nanos[i]))
         ELSE probe_random(nanos, i + 1, busy)

\* find_free_port that returns the preferred port without the bind of
\* lib.rs:63.
find_free_port_unprobed(preferred, nanos, busy) ==
    IF preferred # None
    THEN preferred
    ELSE probe_random(nanos, 1, busy)

\* lib.rs:61-76.  preferred is an Option; nanos holds the values rand_port()
\* returns in the loop; busy is the set of ports on which TcpListener::bind
\* fails at this moment.
find_free_port(preferred, nanos, busy) ==
    IF preferred # None /\ preferred[1] \notin busy
    THEN preferred
    ELSE probe_random(nanos, 1, busy)

\* route_blocks that stops after the first route of the iteration.
route_blocks_first_only(rts, order, host) ==
    IF order = <<>>
    THEN <<>>
    ELSE << ("http://" \o rts[Head(order)].subdomain \o "." \o host \o ".local")
              \o " {\n",
            "\treverse_proxy localhost:" \o ToString(rts[Head(order)].port) \o "\n",
            "}\n\n" >>

\* proxy.rs:50-55  the blocks of the routes, in the order the map iterates.
RECURSIVE route_blocks(_, _, _)
route_blocks(rts, order, host) ==
    IF order = <<>>
    THEN <<>>
    ELSE << ("http://" \o rts[Head(order)].subdomain \o "." \o host \o ".local")
              \o " {\n",
            "\treverse_proxy localhost:" \o ToString(rts[Head(order)].port) \o "\n",
            "}\n\n" >>
         \o route_blocks(rts, Tail(order), host)

\* generate_caddyfile without the routes.is_empty() branch of proxy.rs:43.
generate_caddyfile_no_default(rts, order, host) ==
    << "{\n", "\tauto_https off\n", "\tadmin localhost:2019\n", "}\n\n" >>
    \o route_blocks(rts, order, host)
    \o << "http://*." \o host \o ".local {\n",
          "\trespond \"App not found. Make sure it's running in My Little Apps.\" 404\n",
          "}\n" >>

\* proxy.rs:34-64.  The document is the sequence of the strings pushed onto
\* content; order is the iteration order of routes.values().
generate_caddyfile(rts, order, host) ==
    << "{\n", "\tauto_https off\n", "\tadmin localhost:2019\n", "}\n\n" >>
    \o IF DOMAIN rts = {}
       THEN << ":80 {\n",
               "\trespond \"My Little Apps proxy is running. No apps configured yet.\" 200\n",
               "}\n" >>
       ELSE route_blocks(rts, order, host)
            \o << "http://*." \o host \o ".local {\n",
                  "\trespond \"App not found. Make sure it's running in My Little Apps.\" 404\n",
                  "}\n" >>

\* Characters of the names given to slugify.  "<I-dot>" stands for U+0130,
\* whose lowercase is the two characters 'i' and U+0307 ("<dot>"), a
\* combining mark that is not alphanumeric.
NameChars == {"B", "_", "-", "<I-dot>"}

\* char::to_lowercase: the characters one character lowercases to.
char_to_lowercase(c) ==
    CASE c = "B" -> <<"b">>
      [] c = "<I-dot>" -> <<"i", "<dot>">>
      [] OTHER -> <<c>>

\* str::to_lowercase
RECURSIVE to_lowercase(_)
to_lowercase(s) ==
    IF s = <<>> THEN <<>> ELSE char_to_lowercase(Head(s)) \o to_lowercase(Tail(s))

\* char::is_alphanumeric
is_alphanumeric(c) == c \in {"b", "B", "i", "<I-dot>"}

\* proxy.rs:132  .map(|c| if c.is_alphanumeric() { c } else { '-' })
map_separators(s) == [i \in 1..Len(s) |-> IF is_alphanumeric(s[i]) THEN s[i] ELSE "-"]

\* str::split(sep): the pieces between the separators, the empty ones too.
RECURSIVE split_from(_, _, _, _)
split_from(s, sep, i, cur) ==
    IF i > Len(s)
    THEN <<cur>>
    ELSE IF s[i] = sep
         THEN <<cur>> \o split_from(s, sep, i + 1, <<>>)
         ELSE split_from(s, sep, i + 1, Append(cur, s[i]))

split(s, sep) == split_from(s, sep, 1, <<>>)

\* proxy.rs:135  .filter(|s| !s.is_empty())
RECURSIVE filter_non_empty(_)
filter_non_empty(pieces) ==
    IF pieces = <<>>
    THEN <<>>
    ELSE IF Head(pieces) = <<>>
         THEN filter_non_empty(Tail(pieces))
         ELSE <<Head(pieces)>> \o filter_non_empty(Tail(pieces))

\* [&str]::join(sep)
RECURSIVE join(_, _)
join(pieces, sep) ==
    IF pieces = <<>>
    THEN <<>>
    ELSE IF Len(pieces) = 1
         THEN Head(pieces)
         ELSE Head(pieces) \o <<sep>> \o join(Tail(pieces), sep)

\* slugify without the filter of the empty pieces of proxy.rs:135.
slugify_unfiltered(name) ==
    join(split(map_separators(to_lowercase(name)), "-"), "-")

\* proxy.rs:129-138
slugify(name) ==
    join(filter_non_empty(split(map_separators(to_lowercase(name)), "-")), "-")

(* -------------------------------- state -------------------------------- *)

VARIABLES
    processes,   \* AppState.processes: app id -> [pid, port]   (lib.rs:47)
    logs,        \* AppState.logs: app id -> sequence of lines  (lib.rs:48)
    routes,      \* ProxyState.routes: app id -> [subdomain, port] (proxy.rs:13)
    routeOrder,  \* the order in which routes.values() iterates
    hostname,    \* ProxyState.hostname (proxy.rs:14)
    procLock,    \* owner of the guard of processes, "" when free
    routesLock,  \* owner of the guard of routes, "" when free
    pc,          \* per task: the await its handler is suspended at
    loc,         \* per task: the locals of the suspended handler
    quitPc,      \* position of the cleanup task of the tray "quit" handler
    children,    \* pid -> the child process spawned with that pid
    chan,        \* pid -> the CommandEvents not yet received from rx
    capture,     \* pid -> state of the output capture task of that child
    foreign,     \* ports held by programs the supervisor did not start
    engineUp,    \* whether the proxy engine answers on its admin endpoint
    engineDoc,   \* the document the proxy engine last loaded
    lastPush,    \* outcome of the latest load_caddyfile_via_api call
    emitted,     \* the events the step just taken emitted to the frontend
    ret,         \* the value returned by the step just taken, NoRet otherwise
    expect,      \* per app id: the port its last successful start_app
                 \* returned, None once it was stopped or its child exited
    mdns,        \* MdnsRegistry.processes: subdomain -> announcer (mdns.rs:6)
    announcers,  \* pid -> the dns-sd process spawned with that pid
    mdnsPc,      \* per thread: where its MdnsRegistry call stands
    mdnsLoc      \* per thread: the locals of that call

vars == << processes, logs, routes, routeOrder, hostname, procLock, routesLock,
           pc, loc, quitPc, children, chan, capture, foreign, engineUp,
           engineDoc, lastPush, emitted, ret, expect,
           mdns, announcers, mdnsPc, mdnsLoc >>

supVars == << processes, logs, procLock, children, chan, capture >>

proxyVars == << routes, routeOrder, routesLock, engineDoc, lastPush >>

envVars == << hostname, foreign, engineUp >>

mdnsVars == << mdns, announcers, mdnsPc, mdnsLoc >>

NoMdnsLoc == [subdomain |-> "", pid |-> 0]

NoLoc == [id |-> "", port |-> 0, pid |-> 0, doc |-> <<>>]

\* args holds the arguments of a command that has no app id.
NoRet == [op |-> "", id |-> "", args |-> <<>>, ok |-> TRUE, val |-> None, err |-> ""]

Ok(op, id, val) ==
    [op |-> op, id |-> id, args |-> <<>>, ok |-> TRUE, val |-> val, err |-> ""]

Err(op, id, msg) ==
    [op |-> op, id |-> id, args |-> <<>>, ok |-> FALSE, val |-> None, err |-> msg]

\* An event of handle.emit: name and the fields of its JSON payload.
Event(name, id, port, code, type, message) ==
    [name |-> name, id |-> id, port |-> port, code |-> code, type |-> type,
     message |-> message]

\* CommandEvent (tauri_plugin_shell)
StdoutEv(bytes) == [type |-> "Stdout", bytes |-> bytes, code |-> None]

StderrEv(bytes) == [type |-> "Stderr", bytes |-> bytes, code |-> None]

TerminatedEv(code) == [type |-> "Terminated", bytes |-> <<>>, code |-> code]

\* The chunks a child writes to a stream.
OutputChunks == {<<" ", "o", "k", "\n">>, <<"<FF>">>}

\* Ports on which a bind fails now: held by a foreign program or by a
\* supervised child that is listening.
BusyPorts ==
    foreign \cup {children[p].port : p \in {q \in DOMAIN children :
                      children[q].st = "running" /\ children[q].listening}}

Init ==
    /\ processes = EmptyMap
    /\ logs = EmptyMap
    /\ routes = EmptyMap
    /\ routeOrder = <<>>
    /\ hostname \in Hostnames
    /\ procLock = ""
    /\ routesLock = ""
    /\ pc = [t \in Tasks |-> "idle"]
    /\ loc = [t \in Tasks |-> NoLoc]
    /\ quitPc = "idle"
    /\ children = <<>>
    /\ chan = <<>>
    /\ capture = <<>>
    /\ foreign \in SUBSET Ports
    /\ engineUp \in BOOLEAN
    /\ engineDoc = <<>>
    /\ lastPush = "none"
    /\ emitted = <<>>
    /\ ret = NoRet
    /\ expect = [id \in AppIds |-> None]
    /\ mdns = EmptyMap
    /\ announcers = <<>>
    /\ mdnsPc = [t \in Tasks |-> "idle"]
    /\ mdnsLoc = [t \in Tasks |-> NoMdnsLoc]

\* The host process is alive: app_handle.exit(0) was not called.
Alive == quitPc # "exited"

(* ------------------------- process supervisor -------------------------- *)

\* Spawned without the procs.insert of lib.rs:171-177.
Spawned_unrecorded(t, id, actual) ==
    /\ children' = Append(children,
                      [id |-> id, port |-> actual, st |-> "running",
                       listening |-> FALSE, out |-> 0, sig |-> {}])
    /\ chan' = Append(chan, <<>>)
    /\ capture' = Append(capture, "unspawned")
    /\ processes' = processes
    /\ procLock' = t
    /\ pc' = [pc EXCEPT ![t] = "start_app_logs"]
    /\ loc' = [loc EXCEPT ![t] = [NoLoc EXCEPT !.id = id, !.port = actual,
                                                !.pid = Len(children) + 1]]
    /\ ret' = NoRet

\* lib.rs:168-177  cmd.spawn() succeeded: the child, its event channel and
\* the entry of the running set.
Spawned(t, id, actual) ==
    /\ children' = Append(children,
                      [id |-> id, port |-> actual, st |-> "running",
                       listening |-> FALSE, out |-> 0, sig |-> {}])
    /\ chan' = Append(chan, <<>>)
    /\ capture' = Append(capture, "unspawned")
    /\ processes' = MapInsert(processes, id,
                      [pid |-> Len(children) + 1, port |-> actual])
    /\ procLock' = t
    /\ pc' = [pc EXCEPT ![t] = "start_app_logs"]
    /\ loc' = [loc EXCEPT ![t] = [NoLoc EXCEPT !.id = id, !.port = actual,
                                                !.pid = Len(children) + 1]]
    /\ ret' = NoRet

\* StartFails that also drops the entry of the id from the running set.
StartFails_forgets_id(id, msg) ==
    /\ ret' = Err("start_app", id, msg)
    /\ processes' = MapRemove(processes, id)
    /\ UNCHANGED << children, chan, capture, procLock, pc, loc >>

\* A return of start_app with an error: the guard of processes is dropped
\* and nothing was changed.
StartFails(id, msg) ==
    /\ ret' = Err("start_app", id, msg)
    /\ UNCHANGED << processes, children, chan, capture, procLock, pc, loc >>

\* start_app_lock without the contains_key test of lib.rs:143.
start_app_lock_unchecked(t, id, command, port, nanos, spawnOk) ==
    /\ Alive /\ pc[t] = "idle" /\ procLock = ""
    /\ spawnOk => Len(children) < MaxSpawns
    /\ LET actual == find_free_port(Some(port), nanos, BusyPorts) IN
       IF actual = None
       THEN StartFails(id, "Could not find a free port")
       ELSE IF split_whitespace(command) = <<>>
            THEN StartFails(id, "Invalid command")
            ELSE IF ~spawnOk
                 THEN StartFails(id, "Failed to start app")
                 ELSE Spawned(t, id, actual[1])
    /\ emitted' = <<>>
    /\ UNCHANGED << logs, expect, quitPc >>
    /\ UNCHANGED proxyVars
    /\ UNCHANGED envVars
    /\ UNCHANGED mdnsVars

\* lib.rs:140-177  start_app from the lock of processes to the await of the
\* lock of logs.  nanos are the rand_port() values, spawnOk whether
\* cmd.spawn() succeeds.
start_app_lock(t, id, command, port, nanos, spawnOk) ==
    /\ Alive /\ pc[t] = "idle" /\ procLock = ""
    /\ spawnOk => Len(children) < MaxSpawns
    /\ IF id \in DOMAIN processes
       THEN StartFails(id, "App is already running")
       ELSE LET actual == find_free_port(Some(port), nanos, BusyPorts) IN
            IF actual = None
            THEN StartFails(id, "Could not find a free port")
            ELSE IF split_whitespace(command) = <<>>
                 THEN StartFails(id, "Invalid command")
                 ELSE IF ~spawnOk
                      THEN StartFails(id, "Failed to start app")
                      ELSE Spawned(t, id, actual[1])
    /\ emitted' = <<>>
    /\ UNCHANGED << logs, expect, quitPc >>
    /\ UNCHANGED proxyVars
    /\ UNCHANGED envVars
    /\ UNCHANGED mdnsVars

\* lib.rs:179-257  start_app from the lock of logs to its return.
start_app_finish(t) ==
    /\ Alive /\ pc[t] = "start_app_logs"
    /\ logs' = MapInsert(logs, loc[t].id, <<>>)
    /\ capture' = [capture EXCEPT ![loc[t].pid] = "running"]
    /\ emitted' = << Event("app-started", loc[t].id, Some(loc[t].port), None, "", "") >>
    /\ ret' = Ok("start_app", loc[t].id, Some(loc[t].port))
    /\ expect' = [expect EXCEPT ![loc[t].id] = Some(loc[t].port)]
    /\ procLock' = ""
    /\ pc' = [pc EXCEPT ![t] = "idle"]
    /\ loc' = [loc EXCEPT ![t] = NoLoc]
    /\ UNCHANGED << processes, children, chan, quitPc >>
    /\ UNCHANGED proxyVars
    /\ UNCHANGED envVars
    /\ UNCHANGED mdnsVars

\* lib.rs:88-111 and CommandChild::kill: the signals sent to the child with
\* this pid.  killOk is whether child.kill() succeeds; a killed child
\* terminates without an exit code.
Killed(ch, cn, pid, killOk) ==
    [children |->
        [ch EXCEPT ![pid] =
            [@ EXCEPT !.sig = @ \cup {"tree", "handle"},
                      !.st = IF killOk THEN "exited" ELSE @,
                      !.listening = IF killOk THEN FALSE ELSE @]],
     chan |->
        IF killOk /\ ch[pid].st = "running"
        THEN [cn EXCEPT ![pid] = Append(@, TerminatedEv(None))]
        ELSE cn]

\* stop_app with the emit of lib.rs:276 moved out of the `if let` block.
stop_app_always_emits(t, id, killOk) ==
    /\ Alive /\ pc[t] = "idle" /\ procLock = ""
    /\ IF id \in DOMAIN processes
       THEN /\ processes' = MapRemove(processes, id)
            /\ children' = Killed(children, chan, processes[id].pid, killOk).children
            /\ chan' = Killed(children, chan, processes[id].pid, killOk).chan
            /\ IF killOk
               THEN /\ emitted' = << Event("app-stopped", id, None, None, "", "") >>
                    /\ ret' = Ok("stop_app", id, None)
               ELSE /\ emitted' = <<>>
                    /\ ret' = Err("stop_app", id, "Failed to stop app")
       ELSE /\ ret' = Ok("stop_app", id, None)
            /\ emitted' = << Event("app-stopped", id, None, None, "", "") >>
            /\ UNCHANGED << processes, children, chan >>
    /\ expect' = [expect EXCEPT ![id] = None]
    /\ UNCHANGED << logs, capture, procLock, pc, loc, quitPc >>
    /\ UNCHANGED proxyVars
    /\ UNCHANGED envVars
    /\ UNCHANGED mdnsVars

\* stop_app that takes the entry out of the running set only after
\* child.kill() has succeeded.
stop_app_removes_after_kill(t, id, killOk) ==
    /\ Alive /\ pc[t] = "idle" /\ procLock = ""
    /\ IF id \in DOMAIN processes
       THEN /\ processes' = IF killOk THEN MapRemove(processes, id) ELSE processes
            /\ children' = Killed(children, chan, processes[id].pid, killOk).children
            /\ chan' = Killed(children, chan, processes[id].pid, killOk).chan
            /\ IF killOk
               THEN /\ emitted' = << Event("app-stopped", id, None, None, "", "") >>
                    /\ ret' = Ok("stop_app", id, None)
               ELSE /\ emitted' = <<>>
                    /\ ret' = Err("stop_app", id, "Failed to stop app")
       ELSE /\ ret' = Ok("stop_app", id, None)
            /\ emitted' = <<>>
            /\ UNCHANGED << processes, children, chan >>
    /\ expect' = [expect EXCEPT ![id] = None]
    /\ UNCHANGED << logs, capture, procLock, pc, loc, quitPc >>
    /\ UNCHANGED proxyVars
    /\ UNCHANGED envVars
    /\ UNCHANGED mdnsVars

\* lib.rs:261-286
stop_app(t, id, killOk) ==
    /\ Alive /\ pc[t] = "idle" /\ procLock = ""
    /\ IF id \in DOMAIN processes
       THEN /\ processes' = MapRemove(processes, id)
            /\ children' = Killed(children, chan, processes[id].pid, killOk).children
            /\ chan' = Killed(children, chan, processes[id].pid, killOk).chan
            /\ IF killOk
               THEN /\ emitted' = << Event("app-stopped", id, None, None, "", "") >>
                    /\ ret' = Ok("stop_app", id, None)
               ELSE /\ emitted' = <<>>
                    /\ ret' = Err("stop_app", id, "Failed to stop app")
       ELSE /\ ret' = Ok("stop_app", id, None)
            /\ emitted' = <<>>
            /\ UNCHANGED << processes, children, chan >>
    /\ expect' = [expect EXCEPT ![id] = None]
    /\ UNCHANGED << logs, capture, procLock, pc, loc, quitPc >>
    /\ UNCHANGED proxyVars
    /\ UNCHANGED envVars
    /\ UNCHANGED mdnsVars

\* lib.rs:289-292
get_app_status(t, id) ==
    /\ Alive /\ pc[t] = "idle" /\ procLock = ""
    /\ ret' = Ok("get_app_status", id,
                 IF id \in DOMAIN processes THEN Some(processes[id].port) ELSE None)
    /\ UNCHANGED << pc, loc, quitPc, expect >>
    /\ emitted' = <<>>
    /\ UNCHANGED supVars
    /\ UNCHANGED proxyVars
    /\ UNCHANGED envVars
    /\ UNCHANGED mdnsVars

\* lib.rs:301-304  get_app_logs: a clone of the buffer under the lock of
\* logs, the empty vector for an id without a buffer.
get_app_logs(t, id) ==
    /\ Alive /\ pc[t] = "idle"
    /\ ret' = Ok("get_app_logs", id, Some(IF id \in DOMAIN logs THEN logs[id] ELSE <<>>))
    /\ UNCHANGED << pc, loc, quitPc, expect >>
    /\ emitted' = <<>>
    /\ UNCHANGED supVars
    /\ UNCHANGED proxyVars
    /\ UNCHANGED envVars
    /\ UNCHANGED mdnsVars

\* PushLine that evicts as soon as the buffer reaches LogCap lines.
PushLine_evicts_at_cap(buf, line) ==
    IF Len(Append(buf, line)) >= LogCap THEN Tail(Append(buf, line)) ELSE Append(buf, line)

\* lib.rs:196-202  push the tagged line, keep only the last LogCap lines.
PushLine(buf, line) ==
    IF Len(Append(buf, line)) > LogCap THEN Tail(Append(buf, line)) ELSE Append(buf, line)

\* lib.rs:193-232  the Stdout and Stderr arms: tag is "stdout" or "stderr".
CaptureLine(pid, tag, bytes) ==
    /\ IF from_utf8_ok(bytes)
       THEN /\ logs' = IF children[pid].id \in DOMAIN logs
                       THEN [logs EXCEPT ![children[pid].id] =
                               PushLine(@, ("[" \o tag \o "] ") \o Str(trim(bytes)))]
                       ELSE logs
            /\ emitted' = << Event("app-log", children[pid].id, None, None, tag,
                                  Str(trim(bytes))) >>
       ELSE logs' = logs /\ emitted' = <<>>
    /\ UNCHANGED capture

\* CaptureTerminated without the break of lib.rs:241.
CaptureTerminated_keeps_receiving(pid, code) ==
    /\ emitted' = << Event("app-stopped", children[pid].id, None, code, "", "") >>
    /\ UNCHANGED capture
    /\ UNCHANGED logs

\* lib.rs:233-242  the Terminated arm: publish the event, leave the loop.
CaptureTerminated(pid, code) ==
    /\ emitted' = << Event("app-stopped", children[pid].id, None, code, "", "") >>
    /\ capture' = [capture EXCEPT ![pid] = "done"]
    /\ UNCHANGED logs

\* lib.rs:190-246  one turn of the loop of the capture task of child pid.
capture_recv(pid) ==
    /\ Alive /\ pid \in DOMAIN capture /\ capture[pid] = "running"
    /\ chan[pid] # <<>>
    /\ chan' = [chan EXCEPT ![pid] = Tail(@)]
    /\ CASE Head(chan[pid]).type = "Stdout" ->
                CaptureLine(pid, "stdout", Head(chan[pid]).bytes)
         [] Head(chan[pid]).type = "Stderr" ->
                CaptureLine(pid, "stderr", Head(chan[pid]).bytes)
         [] Head(chan[pid]).type = "Terminated" ->
                CaptureTerminated(pid, Head(chan[pid]).code)
    /\ ret' = NoRet
    /\ UNCHANGED << processes, procLock, children, pc, loc, quitPc, expect >>
    /\ UNCHANGED proxyVars
    /\ UNCHANGED envVars
    /\ UNCHANGED mdnsVars

(* ------------------------- the child processes ------------------------- *)

\* A running child writes a chunk to stdout or stderr; budget is the number
\* of chunks it writes before it goes quiet.
child_writes(pid, ev, budget) ==
    /\ Alive /\ pid \in DOMAIN children /\ children[pid].st = "running"
    /\ children[pid].out < budget
    /\ children' = [children EXCEPT ![pid].out = @ + 1]
    /\ chan' = [chan EXCEPT ![pid] = Append(@, ev)]
    /\ ret' = NoRet
    /\ emitted' = <<>>
    /\ UNCHANGED << processes, logs, procLock, capture, pc, loc, quitPc, expect >>
    /\ UNCHANGED proxyVars
    /\ UNCHANGED envVars
    /\ UNCHANGED mdnsVars

child_output(pid, ev) == child_writes(pid, ev, MaxOutput)

\* The k-th chunk of a child that numbers its lines: odd lines to stdout,
\* even lines to stderr, every 50th chunk not valid UTF-8.
NumberedChunk(k) ==
    IF k % 50 = 0
    THEN StdoutEv(<<"<FF>">>)
    ELSE IF k % 2 = 1
         THEN StdoutEv(<<" ", ToString(k), "\n">>)
         ELSE StderrEv(<<ToString(k), "\r", "\n">>)

\* A running child writes its next numbered line, unless MaxPending events
\* already wait in the channel.
child_numbered_output(pid) ==
    /\ pid \in DOMAIN chan /\ Len(chan[pid]) < MaxPending
    /\ child_writes(pid, NumberedChunk(children[pid].out + 1), MaxLines)

\* A running child binds the port it was given in PORT.
child_listen(pid) ==
    /\ Alive /\ pid \in DOMAIN children /\ children[pid].st = "running"
    /\ ~children[pid].listening
    /\ children[pid].port \notin BusyPorts
    /\ children' = [children EXCEPT ![pid].listening = TRUE]
    /\ ret' = NoRet
    /\ emitted' = <<>>
    /\ UNCHANGED << processes, logs, procLock, chan, capture, pc, loc, quitPc,
                    expect >>
    /\ UNCHANGED proxyVars
    /\ UNCHANGED envVars
    /\ UNCHANGED mdnsVars

\* A running child exits on its own (exit or crash) with an exit code.
child_exit(pid, code) ==
    /\ Alive /\ pid \in DOMAIN children /\ children[pid].st = "running"
    /\ children' = [children EXCEPT ![pid].st = "exited", ![pid].listening = FALSE]
    /\ chan' = [chan EXCEPT ![pid] = Append(@, TerminatedEv(Some(code)))]
    /\ expect' = IF /\ children[pid].id \in DOMAIN processes
                    /\ processes[children[pid].id].pid = pid
                 THEN [expect EXCEPT ![children[pid].id] = None]
                 ELSE expect
    /\ ret' = NoRet
    /\ emitted' = <<>>
    /\ UNCHANGED << processes, logs, procLock, capture, pc, loc, quitPc >>
    /\ UNCHANGED proxyVars
    /\ UNCHANGED envVars
    /\ UNCHANGED mdnsVars

(* --------------------- route table and proxy router -------------------- *)

\* The sequence s with x put at position pos.
InsertAt(s, pos, x) == SubSeq(s, 1, pos - 1) \o <<x>> \o SubSeq(s, pos, Len(s))

\* The sequence s without x.
RECURSIVE Without(_, _)
Without(s, x) ==
    IF s = <<>> THEN <<>>
    ELSE IF Head(s) = x THEN Without(Tail(s), x) ELSE <<Head(s)>> \o Without(Tail(s), x)

\* Outcomes of the POST of proxy.rs:74-80 and of the status test of
\* proxy.rs:82: a success status, a non-success status, no connection, no
\* answer within the timeout of proxy.rs:69.
PushOutcomes == {"success", "rejected", "unreachable", "timeout"}

\* What the engine can answer in its present state.  applied is whether the
\* engine loaded the document: always on success, never when it rejected it
\* or was not reached, and either way when the client stopped waiting.
PushPossible(outcome, applied) ==
    /\ outcome \in PushOutcomes
    /\ outcome = "success" => engineUp /\ applied
    /\ outcome = "rejected" => engineUp /\ ~applied
    /\ outcome = "unreachable" => ~engineUp /\ ~applied
    /\ outcome = "timeout" => (applied => engineUp)

\* load_caddyfile_via_api that takes the absence of an answer for success.
load_caddyfile_via_api_swallows_timeout(op, id, outcome) ==
    CASE outcome \in {"success", "timeout"} -> Ok(op, id, None)
      [] outcome = "rejected" -> Err(op, id, "Caddy config load failed")
      [] OTHER -> Err(op, id, "Failed to connect to Caddy admin API")

\* proxy.rs:67-88  the Result of load_caddyfile_via_api.
load_caddyfile_via_api(op, id, outcome) ==
    CASE outcome = "success" -> Ok(op, id, None)
      [] outcome = "rejected" -> Err(op, id, "Caddy config load failed")
      [] OTHER -> Err(op, id, "Failed to connect to Caddy admin API")

\* The effect of the POST on the engine.
EngineLoads(doc, outcome, applied) ==
    /\ engineDoc' = IF applied THEN doc ELSE engineDoc
    /\ lastPush' = IF outcome = "success" THEN "ok" ELSE "failed"

\* The guard of routes dropped before the push: the lock is free again.
DropRoutes(t) == ""

\* proxy.rs:103 and 117: the MutexGuard `routes` lives until the handler
\* returns, so the lock stays with task t across the await of the push.
HoldRoutes(t) == t

\* add_route_lock that renders the document before it inserts the route.
add_route_lock_stale_render(t, app_id, subdomain, port, pos) ==
    /\ Alive /\ pc[t] = "idle" /\ routesLock = ""
    /\ pos \in 1..(Len(routeOrder) + 1)
    /\ app_id \in DOMAIN routes => pos = 1
    /\ routes' = MapInsert(routes, app_id, [subdomain |-> subdomain, port |-> port])
    /\ routeOrder' = IF app_id \in DOMAIN routes
                     THEN routeOrder
                     ELSE InsertAt(routeOrder, pos, app_id)
    /\ routesLock' = HoldRoutes(t)
    /\ pc' = [pc EXCEPT ![t] = "add_route_push"]
    /\ loc' = [loc EXCEPT ![t] =
                 [NoLoc EXCEPT !.id = app_id,
                               !.doc = generate_caddyfile(routes, routeOrder, hostname)]]
    /\ ret' = NoRet
    /\ UNCHANGED << engineDoc, lastPush, quitPc, expect >>
    /\ emitted' = <<>>
    /\ UNCHANGED supVars
    /\ UNCHANGED envVars
    /\ UNCHANGED mdnsVars

\* proxy.rs:97-112  add_route up to the await of the POST.  pos is the place
\* the map gives a new key in its iteration order.
add_route_lock(t, app_id, subdomain, port, pos) ==
    /\ Alive /\ pc[t] = "idle" /\ routesLock = ""
    /\ pos \in 1..(Len(routeOrder) + 1)
    /\ app_id \in DOMAIN routes => pos = 1
    /\ routes' = MapInsert(routes, app_id, [subdomain |-> subdomain, port |-> port])
    /\ routeOrder' = IF app_id \in DOMAIN routes
                     THEN routeOrder
                     ELSE InsertAt(routeOrder, pos, app_id)
    /\ routesLock' = HoldRoutes(t)
    /\ pc' = [pc EXCEPT ![t] = "add_route_push"]
    /\ loc' = [loc EXCEPT ![t] =
                 [NoLoc EXCEPT !.id = app_id,
                               !.doc = generate_caddyfile(routes', routeOrder', hostname)]]
    /\ ret' = NoRet
    /\ UNCHANGED << engineDoc, lastPush, quitPc, expect >>
    /\ emitted' = <<>>
    /\ UNCHANGED supVars
    /\ UNCHANGED envVars
    /\ UNCHANGED mdnsVars

\* add_route_push that takes the route out again when the push failed.
add_route_push_rollback(t, outcome, applied) ==
    /\ Alive /\ pc[t] = "add_route_push"
    /\ PushPossible(outcome, applied)
    /\ EngineLoads(loc[t].doc, outcome, applied)
    /\ ret' = load_caddyfile_via_api("add_route", loc[t].id, outcome)
    /\ routes' = IF outcome = "success" THEN routes ELSE MapRemove(routes, loc[t].id)
    /\ routeOrder' = IF outcome = "success" THEN routeOrder
                     ELSE Without(routeOrder, loc[t].id)
    /\ routesLock' = ""
    /\ pc' = [pc EXCEPT ![t] = "idle"]
    /\ loc' = [loc EXCEPT ![t] = NoLoc]
    /\ UNCHANGED << quitPc, expect >>
    /\ emitted' = <<>>
    /\ UNCHANGED supVars
    /\ UNCHANGED envVars
    /\ UNCHANGED mdnsVars

\* add_route_push that takes the lock of processes before it returns, while
\* it still holds the lock of routes.
add_route_push_locks_processes(t, outcome, applied) ==
    /\ Alive /\ pc[t] = "add_route_push" /\ procLock = ""
    /\ PushPossible(outcome, applied)
    /\ EngineLoads(loc[t].doc, outcome, applied)
    /\ ret' = load_caddyfile_via_api("add_route", loc[t].id, outcome)
    /\ routesLock' = ""
    /\ pc' = [pc EXCEPT ![t] = "idle"]
    /\ loc' = [loc EXCEPT ![t] = NoLoc]
    /\ UNCHANGED << routes, routeOrder, quitPc, expect >>
    /\ emitted' = <<>>
    /\ UNCHANGED supVars
    /\ UNCHANGED envVars
    /\ UNCHANGED mdnsVars

\* proxy.rs:112  add_route from the answer of the engine to its return.
add_route_push(t, outcome, applied) ==
    /\ Alive /\ pc[t] = "add_route_push"
    /\ PushPossible(outcome, applied)
    /\ EngineLoads(loc[t].doc, outcome, applied)
    /\ ret' = load_caddyfile_via_api("add_route", loc[t].id, outcome)
    /\ routesLock' = ""
    /\ pc' = [pc EXCEPT ![t] = "idle"]
    /\ loc' = [loc EXCEPT ![t] = NoLoc]
    /\ UNCHANGED << routes, routeOrder, quitPc, expect >>
    /\ emitted' = <<>>
    /\ UNCHANGED supVars
    /\ UNCHANGED envVars
    /\ UNCHANGED mdnsVars

\* proxy.rs:116-120  remove_route up to the await of the POST.
remove_route_lock(t, app_id) ==
    /\ Alive /\ pc[t] = "idle" /\ routesLock = ""
    /\ routes' = MapRemove(routes, app_id)
    /\ routeOrder' = Without(routeOrder, app_id)
    /\ routesLock' = HoldRoutes(t)
    /\ pc' = [pc EXCEPT ![t] = "remove_route_push"]
    /\ loc' = [loc EXCEPT ![t] =
                 [NoLoc EXCEPT !.id = app_id,
                               !.doc = generate_caddyfile(routes', routeOrder', hostname)]]
    /\ ret' = NoRet
    /\ UNCHANGED << engineDoc, lastPush, quitPc, expect >>
    /\ emitted' = <<>>
    /\ UNCHANGED supVars
    /\ UNCHANGED envVars
    /\ UNCHANGED mdnsVars

\* proxy.rs:120  remove_route from the answer of the engine to its return.
remove_route_push(t, outcome, applied) ==
    /\ Alive /\ pc[t] = "remove_route_push"
    /\ PushPossible(outcome, applied)
    /\ EngineLoads(loc[t].doc, outcome, applied)
    /\ ret' = load_caddyfile_via_api("remove_route", loc[t].id, outcome)
    /\ routesLock' = ""
    /\ pc' = [pc EXCEPT ![t] = "idle"]
    /\ loc' = [loc EXCEPT ![t] = NoLoc]
    /\ UNCHANGED << routes, routeOrder, quitPc, expect >>
    /\ emitted' = <<>>
    /\ UNCHANGED supVars
    /\ UNCHANGED envVars
    /\ UNCHANGED mdnsVars

\* The proxy engine becomes unreachable, or reachable again.
engine_flip ==
    /\ Alive
    /\ engineUp' = ~engineUp
    /\ ret' = NoRet
    /\ UNCHANGED << hostname, foreign, pc, loc, quitPc, expect >>
    /\ emitted' = <<>>
    /\ UNCHANGED supVars
    /\ UNCHANGED proxyVars
    /\ UNCHANGED mdnsVars

\* lib.rs:118-121  the get_free_port command: no state, no await.  nanos
\* holds the values rand_port() returns in the loop of find_free_port.
get_free_port(preferred, nanos) ==
    /\ Alive
    /\ ret' = [ (IF find_free_port(preferred, nanos, BusyPorts) = None
                 THEN Err("get_free_port", "", "Could not find a free port")
                 ELSE Ok("get_free_port", "", find_free_port(preferred, nanos, BusyPorts)))
               EXCEPT !.args = <<preferred, nanos>> ]
    /\ UNCHANGED << pc, loc, quitPc, expect >>
    /\ emitted' = <<>>
    /\ UNCHANGED supVars
    /\ UNCHANGED proxyVars
    /\ UNCHANGED envVars
    /\ UNCHANGED mdnsVars

\* lib.rs:324-326  the slugify_name command: no state, no await.
slugify_name(name) ==
    /\ Alive
    /\ ret' = [Ok("slugify_name", "", Some(slugify(name))) EXCEPT !.args = <<name>>]
    /\ UNCHANGED << pc, loc, quitPc, expect >>
    /\ emitted' = <<>>
    /\ UNCHANGED supVars
    /\ UNCHANGED proxyVars
    /\ UNCHANGED envVars
    /\ UNCHANGED mdnsVars

(* --------------------------- the name registry ------------------------ *)

\* UNCHANGED of everything but the registry and the returned value.
OnlyMdns ==
    /\ UNCHANGED << pc, loc, quitPc, expect >>
    /\ emitted' = <<>>
    /\ UNCHANGED supVars
    /\ UNCHANGED proxyVars
    /\ UNCHANGED envVars

\* Child::kill on the announcer with this pid; killOk is whether the signal
\* is delivered.  The Result is dropped by every caller (let _ =).
KillAnnouncer(an, pid, killOk) ==
    [an EXCEPT ![pid] = [@ EXCEPT !.killed = TRUE, !.alive = @ /\ ~killOk]]

\* mdns.rs:17-32  register: Command::new("dns-sd")...spawn().  When the
\* spawn fails register returns the error and has touched nothing.
register_spawn(t, subdomain, spawnOk) ==
    /\ Alive /\ mdnsPc[t] = "idle"
    /\ spawnOk => Len(announcers) < MaxAnnouncers
    /\ IF spawnOk
       THEN /\ announcers' = Append(announcers,
                                [subdomain |-> subdomain, alive |-> TRUE, killed |-> FALSE])
            /\ mdnsPc' = [mdnsPc EXCEPT ![t] = "spawned"]
            /\ mdnsLoc' = [mdnsLoc EXCEPT ![t] =
                             [subdomain |-> subdomain, pid |-> Len(announcers) + 1]]
            /\ ret' = NoRet
       ELSE /\ UNCHANGED << announcers, mdnsPc, mdnsLoc >>
            /\ ret' = Err("register", subdomain, "Failed to register mDNS")
    /\ UNCHANGED mdns
    /\ OnlyMdns

\* mdns.rs:34-41  register under the lock of processes: the announcer
\* recorded for the subdomain is removed and killed, the new one inserted.
register_swap(t, killOk) ==
    /\ Alive /\ mdnsPc[t] = "spawned"
    /\ announcers' = IF mdnsLoc[t].subdomain \in DOMAIN mdns
                     THEN KillAnnouncer(announcers, mdns[mdnsLoc[t].subdomain], killOk)
                     ELSE announcers
    /\ mdns' = MapInsert(mdns, mdnsLoc[t].subdomain, mdnsLoc[t].pid)
    /\ mdnsPc' = [mdnsPc EXCEPT ![t] = "idle"]
    /\ mdnsLoc' = [mdnsLoc EXCEPT ![t] = NoMdnsLoc]
    /\ ret' = Ok("register", mdnsLoc[t].subdomain, None)
    /\ OnlyMdns

\* mdns.rs:44-52
unregister(t, subdomain, killOk) ==
    /\ Alive /\ mdnsPc[t] = "idle"
    /\ announcers' = IF subdomain \in DOMAIN mdns
                     THEN KillAnnouncer(announcers, mdns[subdomain], killOk)
                     ELSE announcers
    /\ mdns' = MapRemove(mdns, subdomain)
    /\ ret' = Ok("unregister", subdomain, None)
    /\ UNCHANGED << mdnsPc, mdnsLoc >>
    /\ OnlyMdns

\* KillAnnouncers that leaves the loop at the first kill that fails.
RECURSIVE KillAnnouncers_until_failure(_, _, _)
KillAnnouncers_until_failure(an, pids, failed) ==
    IF pids = {}
    THEN an
    ELSE LET p == CHOOSE q \in pids : TRUE
         IN  IF p \in failed
             THEN KillAnnouncer(an, p, FALSE)
             ELSE KillAnnouncers_until_failure(KillAnnouncer(an, p, TRUE), pids \ {p}, failed)

\* mdns.rs:57-59  the loop over processes.drain(): failed holds the pids
\* whose kill is not delivered.
RECURSIVE KillAnnouncers(_, _, _)
KillAnnouncers(an, pids, failed) ==
    IF pids = {}
    THEN an
    ELSE LET p == CHOOSE q \in pids : TRUE
         IN  KillAnnouncers(KillAnnouncer(an, p, p \notin failed), pids \ {p}, failed)

\* mdns.rs:54-62
unregister_all(t, failed) ==
    /\ Alive /\ mdnsPc[t] = "idle"
    /\ failed \subseteq {mdns[sd] : sd \in DOMAIN mdns}
    /\ announcers' = KillAnnouncers(announcers, {mdns[sd] : sd \in DOMAIN mdns}, failed)
    /\ mdns' = EmptyMap
    /\ ret' = Ok("unregister_all", "", None)
    /\ UNCHANGED << mdnsPc, mdnsLoc >>
    /\ OnlyMdns

\* mdns.rs:78-86  Drop for MdnsRegistry: the owner discards the registry, so
\* no call is in progress and none follows.
registry_drop(failed) ==
    /\ Alive /\ \A t \in Tasks : mdnsPc[t] = "idle"
    /\ failed \subseteq {mdns[sd] : sd \in DOMAIN mdns}
    /\ announcers' = KillAnnouncers(announcers, {mdns[sd] : sd \in DOMAIN mdns}, failed)
    /\ mdns' = EmptyMap
    /\ mdnsPc' = [t \in Tasks |-> "dropped"]
    /\ ret' = NoRet
    /\ UNCHANGED mdnsLoc
    /\ OnlyMdns

\* A dns-sd process exits on its own.
announcer_exit(pid) ==
    /\ Alive /\ pid \in DOMAIN announcers /\ announcers[pid].alive
    /\ announcers' = [announcers EXCEPT ![pid].alive = FALSE]
    /\ ret' = NoRet
    /\ UNCHANGED << mdns, mdnsPc, mdnsLoc >>
    /\ OnlyMdns

(* ------------------------ the tray "quit" handler ---------------------- *)

\* lib.rs:547-550  the loop over procs.drain(): failed holds the pids whose
\* child.kill() fails.
\* KillAll that leaves the loop at the first child.kill() that fails.
RECURSIVE KillAll_until_failure(_, _, _, _)
KillAll_until_failure(ch, cn, pids, failed) ==
    IF pids = {}
    THEN [children |-> ch, chan |-> cn]
    ELSE LET p == CHOOSE q \in pids : TRUE
             k == Killed(ch, cn, p, p \notin failed)
         IN  IF p \in failed
             THEN [children |-> k.children, chan |-> k.chan]
             ELSE KillAll_until_failure(k.children, k.chan, pids \ {p}, failed)

RECURSIVE KillAll(_, _, _, _)
KillAll(ch, cn, pids, failed) ==
    IF pids = {}
    THEN [children |-> ch, chan |-> cn]
    ELSE LET p == CHOOSE q \in pids : TRUE
             k == Killed(ch, cn, p, p \notin failed)
         IN  KillAll(k.children, k.chan, pids \ {p}, failed)

TrackedPids == {processes[id].pid : id \in DOMAIN processes}

\* lib.rs:544-550  the cleanup task up to the await of the lock of routes.
quit_drain(failed) ==
    /\ Alive /\ quitPc = "idle" /\ procLock = ""
    /\ failed \subseteq TrackedPids
    /\ children' = KillAll(children, chan, TrackedPids, failed).children
    /\ chan' = KillAll(children, chan, TrackedPids, failed).chan
    /\ processes' = EmptyMap
    /\ procLock' = "quit"
    /\ quitPc' = "drained"
    /\ expect' = [id \in AppIds |-> None]
    /\ ret' = NoRet
    /\ emitted' = <<>>
    /\ UNCHANGED << logs, capture, pc, loc >>
    /\ UNCHANGED proxyVars
    /\ UNCHANGED envVars
    /\ UNCHANGED mdnsVars

\* lib.rs:553-555  the cleanup task from the lock of routes to the await of
\* the POST.
quit_clear ==
    /\ Alive /\ quitPc = "drained" /\ routesLock = ""
    /\ routes' = EmptyMap
    /\ routeOrder' = <<>>
    /\ routesLock' = "quit"
    /\ quitPc' = "pushing"
    /\ ret' = NoRet
    /\ UNCHANGED << engineDoc, lastPush, pc, loc, expect >>
    /\ emitted' = <<>>
    /\ UNCHANGED supVars
    /\ UNCHANGED envVars
    /\ UNCHANGED mdnsVars

\* lib.rs:555-558  the answer of the engine is dropped; app_handle.exit(0).
quit_exit(outcome, applied) ==
    /\ Alive /\ quitPc = "pushing"
    /\ PushPossible(outcome, applied)
    /\ EngineLoads(generate_caddyfile(routes, routeOrder, hostname), outcome, applied)
    /\ quitPc' = "exited"
    /\ ret' = NoRet
    /\ UNCHANGED << routes, routeOrder, routesLock, pc, loc, expect >>
    /\ emitted' = <<>>
    /\ UNCHANGED supVars
    /\ UNCHANGED envVars
    /\ UNCHANGED mdnsVars

(* ---------------------------- specifications -------------------------- *)

\* The rand_port() values of one find_free_port call.
NanoSeqs == [1..ProbeBudget -> NanoSamples]

OutputEvents == {StdoutEv(b) : b \in OutputChunks} \cup {StderrEv(b) : b \in OutputChunks}

\* The sets of ports other programs hold: none, the preferred port and the
\* first candidate, every port.
ForeignSets == {{}, PortHints \cup {PortBase}, Ports}

\* The commands of the supervisor, over the given inputs.
SupervisorCall(tasks, ids, commands, hints, nanoSeqs) ==
    \E t \in tasks, id \in ids :
        \/ \E command \in commands, port \in hints, nanos \in nanoSeqs,
              spawnOk \in BOOLEAN :
               start_app_lock(t, id, command, port, nanos, spawnOk)
        \/ \E killOk \in BOOLEAN : stop_app(t, id, killOk)
        \/ get_app_status(t, id)

\* The steps the runtime takes for the supervisor without a new command.
SupervisorStep ==
    \/ \E t \in Tasks : start_app_finish(t)
    \/ \E pid \in Pids : capture_recv(pid)

\* The commands of the proxy router, over the given inputs.
RouterCall(ids, subdomains, ports) ==
    \E t \in Tasks, id \in ids :
        \/ \E subdomain \in subdomains, port \in ports, pos \in 1..(Cardinality(ids) + 1) :
               add_route_lock(t, id, subdomain, port, pos)
        \/ remove_route_lock(t, id)

\* The answers of the proxy engine to the documents in flight.
RouterStep ==
    \E t \in Tasks, outcome \in PushOutcomes, applied \in BOOLEAN :
        \/ add_route_push(t, outcome, applied)
        \/ remove_route_push(t, outcome, applied)

QuitStep ==
    \/ \E failed \in SUBSET Pids : quit_drain(failed)
    \/ quit_clear
    \/ \E outcome \in PushOutcomes, applied \in BOOLEAN : quit_exit(outcome, applied)

\* The whole backend for one app: supervisor, router and the quit handler.
\* The child neither writes nor listens; the engine stays as it started.
Next ==
    \/ SupervisorCall(Tasks, {"a"}, {<<"r", " ", "x">>}, PortHints,
                      {[i \in 1..ProbeBudget |-> 50000]})
    \/ SupervisorStep
    \/ \E pid \in Pids : child_exit(pid, 1)
    \/ RouterCall({"a"}, {"blog"}, PortHints \cup {PortBase})
    \/ RouterStep
    \/ QuitStep

InitSystem == Init /\ foreign = {} /\ hostname = "macbook"

Spec == InitSystem /\ [][Next]_vars

\* The supervisor alone, for every app id, command and port; the children
\* listen and exit but write nothing.  Every handler of the supervisor runs
\* under the lock of processes, so a second command in flight is a command
\* that waits for the lock: one task issues the commands in every order.
SupNext ==
    \/ SupervisorCall({"t1"}, AppIds, Commands, PortHints, NanoSeqs)
    \/ SupervisorStep
    \/ \E pid \in Pids :
           \/ child_listen(pid)
           \/ \E code \in ExitCodes : child_exit(pid, code)

InitSup == Init /\ engineUp = TRUE /\ hostname = "macbook" /\ foreign \in ForeignSets

SupSpec == InitSup /\ [][SupNext]_vars

\* The router alone, over all its inputs.
ProxyNext ==
    \/ RouterCall(AppIds, Subdomains, Ports)
    \/ RouterStep
    \/ engine_flip

InitProxy == Init /\ foreign = {}

ProxySpec == InitProxy /\ [][ProxyNext]_vars

\* The router with one subdomain and one port for its routes, under the
\* scheduling of the runtime: the client of
\* proxy.rs:68-71 gives up after its timeout, so the await of the POST always
\* ends and the handler runs on to its return.
FairProxyNext ==
    \/ RouterCall(AppIds, {"blog"}, PortHints)
    \/ RouterStep
    \/ engine_flip

FairProxySpec == InitProxy /\ [][FairProxyNext]_vars /\ WF_vars(RouterStep)

\* The supervisor of one app whose children write to both streams, valid
\* UTF-8 and not.
LogNext ==
    \/ SupervisorCall({"t1"}, {"a"}, {<<"r", " ", "x">>}, PortHints,
                      {[i \in 1..ProbeBudget |-> 50000]})
    \/ SupervisorStep
    \/ \E pid \in Pids :
           \/ \E ev \in OutputEvents : child_output(pid, ev)
           \/ \E code \in ExitCodes : child_exit(pid, code)

InitLog == InitSystem /\ engineUp = TRUE

LogSpec == InitLog /\ [][LogNext]_vars

\* The supervisor of one app whose children write lines to stdout and whose
\* kills succeed, under the scheduling of the runtime: a handler that holds
\* the lock of processes gets the lock of logs, and a capture task is polled
\* whenever its channel holds an event.
FairLogNext ==
    \/ start_app_lock("t1", "a", <<"r", " ", "x">>, 3000,
                      [i \in 1..ProbeBudget |-> 50000], TRUE)
    \/ stop_app("t1", "a", TRUE)
    \/ SupervisorStep
    \/ \E pid \in Pids :
           \/ child_output(pid, StdoutEv(<<" ", "o", "k", "\n">>))
           \/ \E code \in ExitCodes : child_exit(pid, code)

FairLogSpec ==
    /\ InitLog /\ [][FairLogNext]_vars
    /\ WF_vars(SupervisorStep)

\* The names of at most MaxNameLen characters.
Names == UNION {[1..n -> NameChars] : n \in 0..MaxNameLen}

\* The slugify_name command on every name.
SlugNext == \E name \in Names : slugify_name(name)

SlugSpec == InitLog /\ [][SlugNext]_vars

\* The get_free_port command with and without a preferred port; the clock
\* values include the last one below the modulus of lib.rs:70.
PortNext ==
    \E preferred \in {None} \cup {Some(p) : p \in Ports},
       nanos \in [1..ProbeBudget -> NanoSamples \cup {PortSpan - 1}] :
        get_free_port(preferred, nanos)

InitPort == Init /\ engineUp = TRUE /\ hostname = "macbook"

PortSpec == InitPort /\ [][PortNext]_vars

\* The supervisor of one app whose child writes MaxLines numbered lines,
\* read back with get_app_logs.
LogCapNext ==
    \/ \E spawnOk \in BOOLEAN :
           start_app_lock("t1", "a", <<"r", " ", "x">>, 3000,
                          [i \in 1..ProbeBudget |-> 50000], spawnOk)
    \/ SupervisorStep
    \/ \E pid \in Pids : child_numbered_output(pid)
    \/ \E id \in AppIds : get_app_logs("t1", id)

LogCapSpec == InitLog /\ [][LogCapNext]_vars

\* The quit handler with two apps tracked: the apps are started and exit on
\* their own, the router serves one route.
QuitNext ==
    \/ \E id \in AppIds :
           start_app_lock("t1", id, <<"r", " ", "x">>, 3000,
                          [i \in 1..ProbeBudget |-> 50000], TRUE)
    \/ SupervisorStep
    \/ \E pid \in Pids : child_exit(pid, 1)
    \/ RouterCall({"a"}, {"blog"}, PortHints)
    \/ RouterStep
    \/ QuitStep

\* The scheduling of the runtime, as in FairSpec.
QuitSpec ==
    /\ InitSystem /\ [][QuitNext]_vars
    /\ WF_vars(SupervisorStep)
    /\ WF_vars(RouterStep)
    /\ SF_vars(quit_clear)
    /\ WF_vars(\E outcome \in PushOutcomes, applied \in BOOLEAN :
                   quit_exit(outcome, applied))

\* The name registry alone, called from two threads.
MdnsNext ==
    \/ \E t \in Tasks, subdomain \in Subdomains :
           \/ \E spawnOk \in BOOLEAN : register_spawn(t, subdomain, spawnOk)
           \/ \E killOk \in BOOLEAN : unregister(t, subdomain, killOk)
    \/ \E t \in Tasks, killOk \in BOOLEAN : register_swap(t, killOk)
    \/ \E t \in Tasks, failed \in SUBSET (1..MaxAnnouncers) : unregister_all(t, failed)
    \/ \E pid \in 1..MaxAnnouncers : announcer_exit(pid)
    \/ \E failed \in SUBSET (1..MaxAnnouncers) : registry_drop(failed)

MdnsSpec == InitLog /\ [][MdnsNext]_vars

\* The whole backend under the scheduling of the runtime: a handler that
\* can go on without waiting for a new command, a capture task with an event
\* to receive and the cleanup task are eventually run.  The cleanup task
\* waits for the lock of routes in the queue of the mutex, which serves its
\* waiters in order: it gets the lock even when route commands keep coming.
\* No command and no step of a child is ever forced.
FairSpec ==
    /\ Spec
    /\ WF_vars(SupervisorStep)
    /\ WF_vars(RouterStep)
    /\ SF_vars(quit_clear)
    /\ WF_vars(\E outcome \in PushOutcomes, applied \in BOOLEAN :
                   quit_exit(outcome, applied))

(* -------------------------------- claims ------------------------------- *)

\* C1: get_app_status(id) returns the port the last successful start_app(id)
\* returned until stop_app(id) is called or the child exits on its own, and
\* None from then on.
C1_StatusFollowsLifecycle ==
    ret.op = "get_app_status" => ret.val = expect[ret.id]

\* C2: every child that was spawned and not yet stopped is the one recorded
\* under its app id; a start_app on an id in the running set returns the
\* AlreadyRunning error and spawns nothing; a start_app succeeds for an id
\* only when no earlier success for it is still standing.
C2_OneProcessPerId ==
    /\ [](\A p \in DOMAIN children :
            children[p].sig = {} =>
               /\ children[p].id \in DOMAIN processes
               /\ processes[children[p].id].pid = p)
    /\ [][/\ (ret'.op = "start_app" /\ procLock = "" /\ ret'.id \in DOMAIN processes)
               => /\ ret'.err = "App is already running"
                  /\ children' = children
                  /\ processes' = processes
          /\ Len(children') > Len(children)
               => children'[Len(children')].id \notin DOMAIN processes
          /\ (ret'.op = "start_app" /\ ret'.ok) => expect[ret'.id] = None]_vars

C2_Witness ==
    /\ ret.op = "start_app"
    /\ ret.err = "App is already running"
    /\ ret.id \in DOMAIN processes
    /\ Len(children) = 1

\* C3: between operations the route table has a route for an app id exactly
\* when the id is in the running set, and then with the same port.
C3_RouteIffRunning ==
    (procLock = "" /\ routesLock = "") =>
        \A id \in AppIds :
            /\ id \in DOMAIN routes <=> id \in DOMAIN processes
            /\ (id \in DOMAIN routes /\ id \in DOMAIN processes)
                  => routes[id].port = processes[id].port

\* C4: when stop_app(id) has returned, the route table has no route for id.
C4_NoRouteAfterStop ==
    ret.op = "stop_app" => ret.id \notin DOMAIN routes

\* The recorded child of id has terminated on its own and id has a route.
CrashedWithRoute(id) ==
    /\ id \in DOMAIN processes
    /\ children[processes[id].pid].st = "exited"
    /\ id \in DOMAIN routes

\* C5: when a supervised child with a published route terminates on its
\* own, the route of its app id is eventually removed.
C5_CrashRouteEventuallyRemoved ==
    \A id \in AppIds : CrashedWithRoute(id) ~> (id \notin DOMAIN routes)

\* C6: a return of add_route or remove_route leaves the table as the call
\* mutated it (the route inserted, or removed), whatever the engine answered
\* and whether it was reachable, and the return is an error when the push
\* failed.
C6_PushFailureKeepsMutation ==
    [][(ret'.op \in {"add_route", "remove_route"}) =>
          /\ routes' = routes
          /\ routeOrder' = routeOrder
          /\ lastPush' = "failed" => ~ret'.ok
          /\ ret'.op = "add_route" => ret'.id \in DOMAIN routes'
          /\ ret'.op = "remove_route" => ret'.id \notin DOMAIN routes']_vars

C6_Witness ==
    /\ ret.op = "add_route"
    /\ ~ret.ok
    /\ ret.id \in DOMAIN routes
    /\ ~engineUp

\* C7: when the latest push succeeded and no route operation is in
\* progress, the engine holds the rendering of the whole current table.
C7_EngineHoldsCurrentTable ==
    (lastPush = "ok" /\ \A t \in Tasks : pc[t] = "idle") =>
        engineDoc = generate_caddyfile(routes, routeOrder, hostname)

C7_Witness ==
    /\ lastPush = "ok"
    /\ \A t \in Tasks : pc[t] = "idle"
    /\ DOMAIN routes = AppIds
    /\ routeOrder = <<"b", "a">>
    /\ ret.op = "add_route"
    /\ ret.ok
    /\ engineDoc = generate_caddyfile(routes, routeOrder, hostname)

\* C8: no two entries of the running set carry the same port.
C8_DistinctPorts ==
    \A x \in DOMAIN processes, y \in DOMAIN processes :
        x # y => processes[x].port # processes[y].port

\* C9: stop_app on an id that is not in the running set returns success,
\* sends no signal, emits no event and changes neither the running set nor
\* the log buffers nor the route table.
C9_StopUnknownIsNoOp ==
    [][(ret'.op = "stop_app" /\ ret'.id \notin DOMAIN processes) =>
          /\ ret'.ok
          /\ processes' = processes
          /\ children' = children
          /\ chan' = chan
          /\ emitted' = <<>>
          /\ logs' = logs
          /\ routes' = routes]_vars

C9_Witness ==
    /\ ret.op = "stop_app"
    /\ ret.ok
    /\ ret.id \notin DOMAIN processes
    /\ Len(children) = 1
    /\ children[1].id # ret.id
    /\ children[1].sig = {}

\* The document of an empty table: the global options, then the default
\* block of port 80.
EmptyTableDocument ==
    << "{\n", "\tauto_https off\n", "\tadmin localhost:2019\n", "}\n\n",
       ":80 {\n",
       "\trespond \"My Little Apps proxy is running. No apps configured yet.\" 200\n",
       "}\n" >>

\* C10: the document rendered from an empty route table is the global
\* options block followed by the default block of port 80 and nothing else.
C10_EmptyTableDocument ==
    \A t \in Tasks :
        (pc[t] \in {"add_route_push", "remove_route_push"} /\ DOMAIN routes = {})
            => loc[t].doc = EmptyTableDocument

C10_Witness ==
    \E t \in Tasks :
        /\ pc[t] = "remove_route_push"
        /\ DOMAIN routes = {}
        /\ loc[t].doc = EmptyTableDocument
        /\ engineDoc # <<>>
        /\ engineDoc # EmptyTableDocument

GlobalOptionsBlock ==
    << "{\n", "\tauto_https off\n", "\tadmin localhost:2019\n", "}\n\n" >>

\* The block the claim of C11 describes for one route.
RoutingBlock(route, host) ==
    << "http://" \o route.subdomain \o "." \o host \o ".local {\n",
       "\treverse_proxy localhost:" \o ToString(route.port) \o "\n",
       "}\n\n" >>

CatchAllBlock(host) ==
    << "http://*." \o host \o ".local {\n",
       "\trespond \"App not found. Make sure it's running in My Little Apps.\" 404\n",
       "}\n" >>

\* The documents a handler has rendered and is pushing.
RoutePushing(t) == pc[t] \in {"add_route_push", "remove_route_push"}

\* C11: a document rendered from a non-empty route table is the global
\* options block, then one routing block per route of the table (the blocks
\* and the routes match one to one, each block naming the subdomain and the
\* port of its route), then the catch-all block, and has no ':80' block.
C11_NonEmptyTableDocument ==
    \A t \in Tasks :
        (RoutePushing(t) /\ DOMAIN routes # {}) =>
            LET doc == loc[t].doc
                n == Cardinality(DOMAIN routes)
                Block(k) == SubSeq(doc, 4 + 3 * (k - 1) + 1, 4 + 3 * k)
            IN  /\ Len(doc) = 4 + 3 * n + 3
                /\ SubSeq(doc, 1, 4) = GlobalOptionsBlock
                /\ \E f \in [DOMAIN routes -> 1..n] :
                       /\ \A x, y \in DOMAIN routes : f[x] = f[y] => x = y
                       /\ \A x \in DOMAIN routes :
                              Block(f[x]) = RoutingBlock(routes[x], hostname)
                /\ SubSeq(doc, 4 + 3 * n + 1, 4 + 3 * n + 3) = CatchAllBlock(hostname)
                /\ \A i \in 1..Len(doc) : doc[i] # ":80 {\n"

\* A document of two routes that share their subdomain and differ in port.
C11_Witness ==
    \E t \in Tasks :
        /\ RoutePushing(t)
        /\ DOMAIN routes = AppIds
        /\ routes["a"].subdomain = routes["b"].subdomain
        /\ routes["a"].port # routes["b"].port
        /\ Len(loc[t].doc) = 13


\* The orders in which a map with the key set S can iterate.
IterationOrders(S) ==
    {o \in [1..Cardinality(S) -> S] : \A i, j \in 1..Cardinality(S) : o[i] = o[j] => i = j}

\* C12: the document rendered from a route table depends on the entries of
\* the table only: the document a handler renders is the document every
\* table with the same entries renders, whatever order its map iterates in.
C12_RenderingIgnoresOrder ==
    \A t \in Tasks :
        RoutePushing(t) =>
            \A order \in IterationOrders(DOMAIN routes) :
                generate_caddyfile(routes, order, hostname) = loc[t].doc

\* The positions of the alphanumeric characters of s, in order.
AlnumPositions(s) ==
    SelectSeq([i \in 1..Len(s) |-> i], LAMBDA i : is_alphanumeric(s[i]))

\* C13: with L the lowercased name, slugify returns the alphanumeric
\* characters of L in their order, all lowercase; two of them that are
\* neighbours in L are neighbours in the result, two that a run of other
\* characters separates in L are separated by exactly one '-'; the result
\* neither starts nor ends with '-', never holds '--', and slugify maps it
\* to itself.
C13_Slugify ==
    ret.op = "slugify_name" =>
        LET L == to_lowercase(ret.args[1])
            r == ret.val[1]
            P == AlnumPositions(L)
            Q == AlnumPositions(r)
        IN  /\ Len(Q) = Len(P)
            /\ \A k \in 1..Len(P) : r[Q[k]] = L[P[k]]
            /\ \A i \in 1..Len(r) :
                   /\ is_alphanumeric(r[i]) \/ r[i] = "-"
                   /\ char_to_lowercase(r[i]) = <<r[i]>>
            /\ \A k \in 1..(Len(P) - 1) :
                   Q[k + 1] - Q[k] = IF P[k + 1] - P[k] > 1 THEN 2 ELSE 1
            /\ Q # <<>> => Q[1] = 1
            /\ Len(r) = IF Q = <<>> THEN 0 ELSE Q[Len(Q)]
            /\ \A i \in 1..(Len(r) - 1) : ~(r[i] = "-" /\ r[i + 1] = "-")
            /\ slugify(r) = r

\* An uppercase letter, a run of two separators, a letter whose lowercase
\* ends in a mark: one '-' for the run and none at the end.
C13_Witness ==
    /\ ret.op = "slugify_name"
    /\ ret.args[1] = <<"B", "_", "-", "<I-dot>">>
    /\ ret.val[1] = <<"b", "-", "i">>

\* C14: find_free_port returns the preferred port when one is given and it
\* binds; otherwise the first of the ProbeBudget candidates that binds, every
\* candidate lying in [10000, 60000); it fails exactly when the preferred
\* port (if any) and every candidate fail to bind.
C14_FindFreePort ==
    ret.op = "get_free_port" =>
        LET preferred == ret.args[1]
            nanos == ret.args[2]
            candidate(i) == 10000 + (nanos[i] % 50000)
            binds(p) == p \notin BusyPorts
            preferredBinds == preferred # None /\ binds(preferred[1])
            free == {i \in 1..Len(nanos) : binds(candidate(i))}
        IN  /\ Len(nanos) = ProbeBudget
            /\ \A i \in 1..Len(nanos) : candidate(i) >= 10000 /\ candidate(i) < 60000
            /\ preferredBinds => ret.ok /\ ret.val = preferred
            /\ (~preferredBinds /\ free # {}) =>
                   /\ ret.ok
                   /\ \E i \in free : /\ \A j \in free : i <= j
                                       /\ ret.val = Some(candidate(i))
            /\ ~ret.ok <=> (~preferredBinds /\ free = {})
            /\ ~ret.ok => ret.val = None /\ ret.err = "Could not find a free port"

\* The preferred port is taken, the first candidate too; the second one,
\* the last port of the range, is returned.
C14_Witness ==
    /\ ret.op = "get_free_port"
    /\ ret.args[1] = Some(3000)
    /\ 3000 \in BusyPorts
    /\ PortBase \in BusyPorts
    /\ ret.args[2][1] = PortSpan
    /\ ret.val = Some(59999)

\* C15: a start_app on an id that is not in the running set, with a command
\* of zero whitespace-separated tokens, returns the InvalidCommand error,
\* whether or not a port can be allocated, and spawns no process.
C15_EmptyCommandIsInvalid ==
    [][\A t \in Tasks, id \in AppIds, command \in Commands, port \in PortHints,
          nanos \in NanoSeqs, spawnOk \in BOOLEAN :
          (/\ split_whitespace(command) = <<>>
           /\ id \notin DOMAIN processes
           /\ start_app_lock(t, id, command, port, nanos, spawnOk))
              => /\ ret' = Err("start_app", id, "Invalid command")
                 /\ children' = children
                 /\ processes' = processes]_vars

\* C16: no two announcer processes of the same subdomain are alive at the
\* same time, during or after any sequence of register calls.
C16_OneAnnouncerPerSubdomain ==
    \A p, q \in DOMAIN announcers :
        (/\ announcers[p].subdomain = announcers[q].subdomain
         /\ announcers[p].alive /\ announcers[q].alive)
            => p = q

\* C17: the host process exits only after the cleanup: when exit(0) has been
\* called every child has been sent the tree kill and the handle kill, the
\* running set and the route table are empty; the step that exits is the
\* return of a push of the empty-table document, whatever its outcome; and
\* once the cleanup has drained the processes it goes on to the exit,
\* whichever kills failed.
C17_ExitAfterCleanup ==
    /\ [](quitPc = "exited" =>
            /\ processes = EmptyMap
            /\ routes = EmptyMap
            /\ \A p \in DOMAIN children : {"tree", "handle"} \subseteq children[p].sig)
    /\ [][(quitPc # "exited" /\ quitPc' = "exited") =>
            /\ quitPc = "pushing"
            /\ routes = EmptyMap
            /\ \E outcome \in PushOutcomes, applied \in BOOLEAN :
                   /\ PushPossible(outcome, applied)
                   /\ EngineLoads(EmptyTableDocument, outcome, applied)]_vars
    /\ (quitPc = "drained") ~> (quitPc = "exited")

\* Two apps tracked at the quit; the kill of the first child failed, the
\* second one was killed, the push failed, and the host process has exited.
C17_Witness ==
    /\ quitPc = "exited"
    /\ Len(children) = 2
    /\ children[1].id # children[2].id
    /\ children[1].st = "running" /\ children[1].sig = {"tree", "handle"}
    /\ children[2].st = "exited" /\ children[2].sig = {"tree", "handle"}
    /\ lastPush = "failed"
    /\ ret.op = ""

\* C18: whenever an app id leaves the running set (stop_app, or the drain of
\* the quit cleanup), the route table holds no route for it any more.
C18_RouteRemovedBeforeHandle ==
    [][\A id \in AppIds :
          (id \in DOMAIN processes /\ id \notin DOMAIN processes')
              => id \notin DOMAIN routes]_vars

\* C19: a handler that is pushing holds the lock of routes, and the document
\* it pushes is the rendering of the table as its own mutation left it; the
\* table does not change while a push is in flight, and every document the
\* engine loads is the rendering of the table at that moment.
C19_PushIsOwnSnapshot ==
    /\ [](\A t \in Tasks :
            RoutePushing(t) =>
                /\ routesLock = t
                /\ loc[t].doc = generate_caddyfile(routes, routeOrder, hostname))
    /\ [](quitPc = "pushing" => routesLock = "quit" /\ routes = EmptyMap)
    /\ [][((\E t \in Tasks : RoutePushing(t)) \/ quitPc = "pushing")
             => routes' = routes /\ routeOrder' = routeOrder]_vars
    /\ [][engineDoc' # engineDoc
             => engineDoc' = generate_caddyfile(routes, routeOrder, hostname)]_vars

\* A push of a non-empty table is in flight while the engine still holds an
\* older document and the quit cleanup waits for the lock of routes.
C19_Witness ==
    \E t \in Tasks :
        /\ RoutePushing(t)
        /\ DOMAIN routes # {}
        /\ engineDoc # <<>>
        /\ engineDoc # loc[t].doc
        /\ quitPc = "drained"

\* The numbers of the valid lines among the first n chunks, in order.
ValidLines(n) == SelectSeq([k \in 1..n |-> k], LAMBDA k : k % 50 # 0)

\* The entry the claim of C20 describes for line k: the tag of its stream and
\* the line without the surrounding whitespace.
TaggedLine(k) ==
    IF k % 2 = 1 THEN "[stdout] " \o ToString(k) ELSE "[stderr] " \o ToString(k)

\* The last cap elements of s.
LastOf(s, cap) == IF Len(s) <= cap THEN s ELSE SubSeq(s, Len(s) - cap + 1, Len(s))

\* The buffer C20 describes once the capture task has received n chunks.
RecentLines(n) ==
    LET v == LastOf(ValidLines(n), 500) IN [i \in 1..Len(v) |-> TaggedLine(v[i])]

\* C20: the buffer of an app holds at most 500 entries: the tagged lines its
\* capture task received, in the order received, the oldest ones evicted so
\* that the most recent 500 remain; get_app_logs returns that buffer.
C20_LogBufferBounded ==
    /\ \A id \in DOMAIN logs : Len(logs[id]) <= 500
    /\ \A pid \in DOMAIN children :
           children[pid].id \in DOMAIN logs =>
               logs[children[pid].id] = RecentLines(children[pid].out - Len(chan[pid]))
    /\ ret.op = "get_app_logs" =>
           /\ Len(ret.val[1]) <= 500
           /\ ret.val[1] = IF ret.id \in DOMAIN logs THEN logs[ret.id] ELSE <<>>

\* get_app_logs returns a full buffer from which the first lines are gone.
C20_Witness ==
    /\ ret.op = "get_app_logs"
    /\ Len(ret.val[1]) = 500
    /\ ret.val[1][1] = "[stderr] 4"
    /\ ret.val[1][500] = "[stdout] 513"

\* C21: a start_app that returns an error leaves the running set, the log
\* buffers and the route table as they were, spawns no child and starts no
\* capture task.
C21_FailedStartChangesNothing ==
    [][(ret'.op = "start_app" /\ ~ret'.ok) =>
          /\ ret'.err \in {"App is already running", "Could not find a free port",
                           "Invalid command", "Failed to start app"}
          /\ processes' = processes
          /\ logs' = logs
          /\ routes' = routes
          /\ children' = children
          /\ capture' = capture]_vars

\* The spawn for "b" failed while "a" is recorded with its buffer.
C21_Witness ==
    /\ ret = Err("start_app", "b", "Failed to start app")
    /\ DOMAIN processes = {"a"}
    /\ DOMAIN logs = {"a"}
    /\ Len(children) = 1

\* The registry was dropped in this step.
RegistryDropped == (\A t \in Tasks : mdnsPc[t] = "dropped")

\* C22: a step of unregister_all, and the drop of the registry, issues a kill
\* to every announcer of the table and leaves the table empty, whichever
\* kills fail; unregister_all returns Ok.
C22_UnregisterAllKillsAll ==
    [][((ret'.op = "unregister_all") \/ (RegistryDropped' /\ ~RegistryDropped)) =>
          /\ mdns' = EmptyMap
          /\ \A sd \in DOMAIN mdns : announcers'[mdns[sd]].killed
          /\ \A p \in DOMAIN announcers :
                 (\A sd \in DOMAIN mdns : mdns[sd] # p) => announcers'[p] = announcers[p]
          /\ ret'.ok]_vars

\* unregister_all has returned Ok; of the two announcers it found in the
\* table the first had exited on its own and the kill of the second failed.
C22_Witness ==
    /\ ret = Ok("unregister_all", "", None)
    /\ mdns = EmptyMap
    /\ Len(announcers) = 2
    /\ announcers[1].subdomain # announcers[2].subdomain
    /\ announcers[1].killed /\ ~announcers[1].alive
    /\ announcers[2].killed /\ announcers[2].alive

\* C23: every add_route and remove_route call that waits for the engine
\* returns, and the lock of routes it holds becomes free; a push that got no
\* answer within the timeout returns an error, never success, and releases
\* the lock.
C23_RouteCallsReturn ==
    /\ \A t \in Tasks : RoutePushing(t) ~> (pc[t] = "idle")
    /\ (routesLock \in Tasks) ~> (routesLock = "")
    /\ [][\A t \in Tasks, applied \in BOOLEAN :
             (\/ add_route_push(t, "timeout", applied)
              \/ remove_route_push(t, "timeout", applied))
                 => /\ ~ret'.ok
                    /\ ret'.err = "Failed to connect to Caddy admin API"
                    /\ routesLock' = ""]_vars

\* add_route has returned the error of a push that timed out on an engine
\* that is up and did not load the document; the lock is free again.
C23_Witness ==
    /\ ret.op = "add_route"
    /\ ret.err = "Failed to connect to Caddy admin API"
    /\ engineUp
    /\ DOMAIN routes # {}
    /\ engineDoc = <<>>
    /\ routesLock = ""
    /\ \A t \in Tasks : pc[t] = "idle"

\* C24: whenever the lock of processes is free (the states stop_app,
\* get_app_status and the quit cleanup can observe), every child that was
\* spawned, still runs and was sent no signal is the one recorded under its
\* app id; a stop_app(id) is a no-op when the id is not recorded, sends its
\* signals to the recorded child otherwise, and in both cases leaves no
\* child of the id without a signal; neither does the quit cleanup.
C24_SpawnedIsRecorded ==
    /\ [](procLock = "" =>
            \A p \in DOMAIN children :
                (children[p].st = "running" /\ children[p].sig = {}) =>
                    /\ children[p].id \in DOMAIN processes
                    /\ processes[children[p].id].pid = p)
    /\ [][\A t \in Tasks, id \in AppIds, killOk \in BOOLEAN :
             stop_app(t, id, killOk) =>
                /\ id \notin DOMAIN processes =>
                       (children' = children /\ chan' = chan /\ emitted' = <<>>)
                /\ id \in DOMAIN processes =>
                       {"tree", "handle"} \subseteq children'[processes[id].pid].sig
                /\ \A p \in DOMAIN children' :
                       children'[p].id = id => children'[p].sig # {}]_vars
    /\ [][(\E failed \in SUBSET TrackedPids : quit_drain(failed)) =>
             \A p \in DOMAIN children' : children'[p].sig # {}]_vars

\* A stop_app that found the child of a start_app that returned just before
\* it, and killed it.
C24_Witness ==
    /\ ret.op = "stop_app" /\ ret.ok
    /\ emitted # <<>>
    /\ \E p \in DOMAIN children :
          /\ children[p].id = ret.id
          /\ children[p].st = "exited"
          /\ children[p].out = 0
          /\ "handle" \in children[p].sig
    /\ ret.id \notin DOMAIN processes

\* C25: once the child of a started app has terminated, on its own with an
\* exit code or killed by stop_app without one, its capture task eventually
\* ends; the step in which it ends publishes 'app-stopped' for the id of the
\* child, with an exit code when no kill was sent to the child; a capture
\* task that has ended stays ended, receives nothing more and appends nothing to a log buffer.
C25_TerminationIsPublished ==
    /\ \A pid \in Pids :
          (pid \in DOMAIN children /\ children[pid].st = "exited")
              ~> (pid \in DOMAIN capture /\ capture[pid] = "done")
    /\ [][\A pid \in DOMAIN capture :
             (capture[pid] # "done" /\ capture'[pid] = "done") =>
                 /\ children[pid].st = "exited"
                 /\ Len(emitted') = 1
                 /\ emitted'[1].name = "app-stopped"
                 /\ emitted'[1].id = children[pid].id
                 /\ emitted'[1].code \in {None} \cup {Some(c) : c \in ExitCodes}
                 /\ children[pid].sig = {} => emitted'[1].code # None
                 /\ logs' = logs]_vars
    /\ [][\A pid \in DOMAIN capture :
             capture[pid] = "done" =>
                 /\ capture'[pid] = "done"
                 /\ chan'[pid] = chan[pid]
                 /\ ~capture_recv(pid)]_vars

\* The capture task of a child that wrote a line and was then killed by
\* stop_app has just published the termination without an exit code, after
\* the line, and ended.
C25_Witness ==
    /\ ret = NoRet
    /\ Len(emitted) = 1
    /\ emitted[1].name = "app-stopped"
    /\ emitted[1].code = None
    /\ \E pid \in DOMAIN capture :
          /\ capture[pid] = "done"
          /\ children[pid].out = 1
          /\ "handle" \in children[pid].sig
          /\ children[pid].id \in DOMAIN logs
          /\ Len(logs[children[pid].id]) = 1

\* Who can hold a lock: the handlers and the cleanup task of quit.
Agents == Tasks \cup {"quit"}

\* The locks an agent holds.  The lock of logs is taken and released within
\* one step, so no agent holds it between steps.
HeldBy(x) ==
    (IF procLock = x THEN {"processes"} ELSE {}) \cup
    (IF routesLock = x THEN {"routes"} ELSE {})

\* The lock an agent is about to take at its await.
WaitsFor(x) ==
    IF x \in Tasks /\ pc[x] = "start_app_logs" THEN {"logs"}
    ELSE IF x = "quit" /\ quitPc = "drained" THEN {"routes"}
    ELSE {}

\* x waits for a lock that y holds.
Blocks(x, y) == x # y /\ WaitsFor(x) \cap HeldBy(y) # {}

\* C26: an agent that waits for a lock holds at most the lock of processes
\* and waits for logs or routes; nobody takes the lock of processes while
\* holding another lock; no two or three agents wait for each other in a
\* cycle; while the application runs and a lock is held, a step of the
\* runtime is possible; and every lock that is held is released again, or
\* the application exits.
C26_NoDeadlock ==
    /\ [](\A x \in Agents :
            WaitsFor(x) # {} =>
                /\ HeldBy(x) \subseteq {"processes"}
                /\ WaitsFor(x) \subseteq {"logs", "routes"})
    /\ [][procLock' \notin {"", procLock} => routesLock # procLock']_vars
    /\ [](\A x, y, z \in Agents :
            /\ ~(Blocks(x, y) /\ Blocks(y, x))
            /\ ~(Blocks(x, y) /\ Blocks(y, z) /\ Blocks(z, x)))
    /\ []((Alive /\ (procLock # "" \/ routesLock # "")) =>
            ENABLED (SupervisorStep \/ RouterStep \/ QuitStep))
    /\ (procLock # "") ~> (procLock = "" \/ ~Alive)
    /\ (routesLock # "") ~> (routesLock = "" \/ ~Alive)

\* The cleanup task of quit holds the lock of processes and waits for the lock
\* of routes, which a handler holds during its push.
C26_Witness ==
    /\ quitPc = "drained"
    /\ procLock = "quit"
    /\ routesLock \in Tasks
    /\ Blocks("quit", routesLock)

\* C27: a stop_app on an id of the running set whose child.kill() fails
\* returns the error "Failed to stop app", publishes nothing, has sent both
\* kills to the recorded child and leaves the id out of the running set;
\* right after it get_app_status of the id returns nothing and start_app of
\* the id is not refused as already running.
C27_FailedStopForgetsApp ==
    /\ [][\A t \in Tasks, id \in AppIds :
             (stop_app(t, id, FALSE) /\ id \in DOMAIN processes) =>
                 /\ ~ret'.ok
                 /\ ret'.err = "Failed to stop app"
                 /\ emitted' = <<>>
                 /\ id \notin DOMAIN processes'
                 /\ children'[processes[id].pid].sig = {"tree", "handle"}
                 /\ children'[processes[id].pid].st = children[processes[id].pid].st]_vars
    /\ []((ret.op = "stop_app" /\ ~ret.ok) => ret.id \notin DOMAIN processes)
    /\ [][(ret.op = "stop_app" /\ ~ret.ok /\ ret'.id = ret.id) =>
             /\ ret'.op = "get_app_status" => ret'.val = None
             /\ ret'.op = "start_app" => ret'.err # "App is already running"
             /\ \A t \in Tasks, command \in Commands, port \in PortHints,
                   nanos \in NanoSeqs :
                    (/\ start_app_lock(t, ret.id, command, port, nanos, TRUE)
                     /\ split_whitespace(command) # <<>>
                     /\ find_free_port(Some(port), nanos, BusyPorts) # None)
                        => /\ ret.id \in DOMAIN processes'
                           /\ Len(children') = Len(children) + 1]_vars

\* The app was started again after a stop_app whose kill failed: the first
\* child was signalled and still runs, the second one is the recorded one.
C27_Witness ==
    /\ Len(children) = 2
    /\ children[1].id = children[2].id
    /\ children[1].sig = {"tree", "handle"}
    /\ children[1].st = "running"
    /\ children[2].sig = {}
    /\ children[1].id \in DOMAIN processes
    /\ processes[children[1].id].pid = 2
    /\ ret.op = "start_app" /\ ret.ok

\* C28: once a start_app of an id has returned, the capture task of an
\* earlier child of the same id appends no line to the buffer of the id.
C28_BufferHoldsOwnRunOnly ==
    [][\A pid \in DOMAIN capture :
          (capture_recv(pid) /\ logs' # logs) =>
              ~\E later \in DOMAIN children :
                    /\ later > pid
                    /\ children[later].id = children[pid].id
                    /\ capture[later] # "unspawned"]_vars

\* C29: no two routes of the table carry the same subdomain, and no document
\* a handler renders holds two routing blocks with the same site address.
C29_SubdomainsUnique ==
    /\ \A x, y \in DOMAIN routes :
          x # y => routes[x].subdomain # routes[y].subdomain
    /\ \A t \in Tasks :
          (RoutePushing(t) /\ DOMAIN routes # {}) =>
              \A i, j \in 1..Cardinality(DOMAIN routes) :
                  i # j => loc[t].doc[4 + 3 * (i - 1) + 1] # loc[t].doc[4 + 3 * (j - 1) + 1]

====
